---- MODULE Spec2Model ----
(***************************************************************************)
(* A model of the graph library of veraterenteva/graph-tasks:              *)
(*   graph_abc.py       Graph: adjacency storage and the three exports     *)
(*   graph_building.py  UnweightedGraph.add_edge, WeightedGraph.add_edge   *)
(*   graph_factory.py   GraphFactory.from_edges, from_adjacency_matrix     *)
(*   algorithmics.py    connected_components, components_with_stats        *)
(*                                                                         *)
(* A Python list of (neighbour, weight) pairs is a sequence of pairs       *)
(* <<nbr, w>>; a dict or list indexed by vertex is a function on 0..n-1.   *)
(* Weights are floats; the model draws them from Weights, whose members    *)
(* 0, 1, 2 stand for 0.0, 1.0, 2.0 (float() of a float is that float).     *)
(* A raised exception is the "exc" field of an operation's outcome.        *)
(***************************************************************************)
EXTENDS Integers, Sequences, FiniteSets, TLC

\* ---------------------------------------------------------------- bounds
MaxVertices == 3
MaxCalls == 2
MaxEdges == 2
MaxBuild == 3
MaxDfsVertices == 4

Weights == {0, 1, 2}

VARIABLES vertices, directed, weighted, adj, calls, last, prev, result, g2, run

vars == <<vertices, directed, weighted, adj, calls, last, prev, result, g2, run>>

\* ------------------------------------------------------- generic helpers
Range(s) == {s[i] : i \in DOMAIN s}

Min(S) == CHOOSE x \in S : \A y \in S : x <= y

\* range(n)
Vertices(n) == 0 .. (n - 1)

\* the value Python's None stands for here
None == [exc |-> "none", value |-> <<>>]

Ok(val) == [exc |-> "none", value |-> val]

Raise(e) == [exc |-> e, value |-> <<>>]

\* Python's comparison of two tuples of numbers of one length: a <= b
TupleLE(a, b) ==
    \/ a = b
    \/ \E i \in DOMAIN a : /\ a[i] < b[i]
                           /\ \A j \in 1 .. (i - 1) : a[j] = b[j]

\* sorted(s, key=...) and list.sort(key=...): a stable insertion sort.
\* keys[i] is the key of s[i], a tuple of numbers.  x lands after every
\* element already placed whose key is <= its own, so equal keys keep their
\* original order.
SortedInsert(t, x) ==
    LET p == Cardinality({i \in DOMAIN t : TupleLE(t[i].key, x.key)})
    IN  SubSeq(t, 1, p) \o <<x>> \o SubSeq(t, p + 1, Len(t))

StableSort(s, keys) ==
    LET ins[k \in 0 .. Len(s)] ==
            IF k = 0 THEN <<>>
            ELSE SortedInsert(ins[k - 1], [item |-> s[k], key |-> keys[k]])
    IN  [i \in DOMAIN s |-> ins[Len(s)][i].item]

\* ------------------------------------------------------------ graph_abc
\* Graph.__init__: {i: [] for i in range(vertices)}
EmptyAdjacency(n) == [i \in Vertices(n) |-> <<>>]

\* Graph._check_vertex: TRUE iff it returns without raising IndexError
CheckVertex(n, v) == 0 <= v /\ v < n

\* lambda x: x[0]
NbrKey(x) == <<x[1]>>

\* sorted(neighbors, key=lambda x: x[0])
SortNeighbours(lst) == StableSort(lst, [i \in DOMAIN lst |-> NbrKey(lst[i])])

\* Graph.get_adjacency_list: a copy with each neighbour list sorted by
\* neighbour id.
GetAdjacencyList(a) == [v \in DOMAIN a |-> SortNeighbours(a[v])]

\* MatrixRow with the weighted flag ignored: every stored edge reads 1.0.
MatrixRowOnes(n, lst, isWeighted) ==
    LET row[k \in 0 .. Len(lst)] ==
            IF k = 0 THEN [c \in Vertices(n) |-> 0]
            ELSE [row[k - 1] EXCEPT ![lst[k][1]] = 1]
    IN  row[Len(lst)]

\* Graph.get_adjacency_matrix: n x n zeros, then for every stored pair (v, w)
\* of u, in list order, matrix[u][v] = w if weighted else 1.0.
MatrixRow(n, lst, isWeighted) ==
    LET row[k \in 0 .. Len(lst)] ==
            IF k = 0 THEN [c \in Vertices(n) |-> 0]
            ELSE [row[k - 1] EXCEPT ![lst[k][1]] =
                      IF isWeighted THEN lst[k][2] ELSE 1]
    IN  row[Len(lst)]

GetAdjacencyMatrix(n, a, isWeighted) ==
    [u \in Vertices(n) |-> MatrixRow(n, a[u], isWeighted)]

\* lambda e: (min(e), max(e))
EdgeKey(e) ==
    IF e[1] < e[2] THEN <<e[1], e[2]>> ELSE <<e[2], e[1]>>

\* DirectedEdges without the sort: the neighbours of u in stored order.
DirectedEdgesUnsorted(n, a) ==
    LET fromU(u) == [i \in DOMAIN a[u] |-> <<u, a[u][i][1]>>]
        acc[k \in 0 .. n] ==
            IF k = 0 THEN <<>> ELSE acc[k - 1] \o fromU(k - 1)
    IN  acc[n]

\* get_incidence_matrix, directed branch: for u in range(n), the neighbours
\* of u sorted by (u, nbr), each appended as (u, v).
DirectedEdges(n, a) ==
    LET fromU(u) == LET sl == SortNeighbours(a[u])
                    IN  [i \in DOMAIN sl |-> <<u, sl[i][1]>>]
        acc[k \in 0 .. n] ==
            IF k = 0 THEN <<>> ELSE acc[k - 1] \o fromU(k - 1)
    IN  acc[n]

\* get_incidence_matrix, undirected branch: for u in range(n), for (v, _) in
\* the stored list of u, keep (u, v) when u < v and neither (u, v) nor (v, u)
\* was seen; then edges.sort(key=(min, max)).
UndirectedEdges(n, a) ==
    LET scan(st, u) ==
            LET lst == a[u]
                inner[k \in 0 .. Len(lst)] ==
                    IF k = 0 THEN st
                    ELSE LET s0 == inner[k - 1]
                             v == lst[k][1]
                         IN  IF u < v /\ <<u, v>> \notin s0.seen
                                      /\ <<v, u>> \notin s0.seen
                             THEN [edges |-> Append(s0.edges, <<u, v>>),
                                   seen |-> s0.seen \cup {<<u, v>>}]
                             ELSE s0
            IN  inner[Len(lst)]
        acc[k \in 0 .. n] ==
            IF k = 0 THEN [edges |-> <<>>, seen |-> {}]
            ELSE scan(acc[k - 1], k - 1)
    IN  StableSort(acc[n].edges,
                   [i \in DOMAIN acc[n].edges |-> EdgeKey(acc[n].edges[i])])

IncidenceEdges(n, a, isDirected) ==
    IF isDirected THEN DirectedEdges(n, a) ELSE UndirectedEdges(n, a)

\* Graph.get_incidence_matrix: n rows, one column per listed edge (columns
\* are numbered from 1 here, from 0 in the code); for the edge (u, v) of
\* column idx, matrix[u][idx] = -1 and matrix[v][idx] = 1 when directed,
\* both 1 otherwise.
GetIncidenceMatrix(n, a, isDirected) ==
    LET edges == IncidenceEdges(n, a, isDirected)
        m == Len(edges)
        fill[k \in 0 .. m] ==
            IF k = 0 THEN [r \in Vertices(n) |-> [c \in 1 .. m |-> 0]]
            ELSE LET u == edges[k][1]
                     v == edges[k][2]
                     m1 == [fill[k - 1] EXCEPT ![u][k] =
                                IF isDirected THEN 0 - 1 ELSE 1]
                 IN  [m1 EXCEPT ![v][k] = 1]
    IN  fill[m]

\* ------------------------------------------------------- graph_building
\* UnweightedAddEdge without the self-loop test.
UnweightedAddEdgeNoSelfLoopCheck(n, isDirected, a, u, v, weight) ==
    IF ~CheckVertex(n, u) THEN [adj |-> a, exc |-> "IndexError"]
    ELSE IF ~CheckVertex(n, v) THEN [adj |-> a, exc |-> "IndexError"]
    ELSE LET a1 == IF <<v, 1>> \notin Range(a[u])
                   THEN [a EXCEPT ![u] = Append(@, <<v, 1>>)]
                   ELSE a
             a2 == IF ~isDirected /\ <<u, 1>> \notin Range(a1[v])
                   THEN [a1 EXCEPT ![v] = Append(@, <<u, 1>>)]
                   ELSE a1
         IN  [adj |-> a2, exc |-> "none"]

\* UnweightedAddEdge storing the weight the caller passed.
UnweightedAddEdgeStoresWeight(n, isDirected, a, u, v, weight) ==
    IF ~CheckVertex(n, u) THEN [adj |-> a, exc |-> "IndexError"]
    ELSE IF ~CheckVertex(n, v) THEN [adj |-> a, exc |-> "IndexError"]
    ELSE IF u = v THEN [adj |-> a, exc |-> "ValueError"]
    ELSE LET a1 == IF <<v, weight>> \notin Range(a[u])
                   THEN [a EXCEPT ![u] = Append(@, <<v, weight>>)]
                   ELSE a
             a2 == IF ~isDirected /\ <<u, weight>> \notin Range(a1[v])
                   THEN [a1 EXCEPT ![v] = Append(@, <<u, weight>>)]
                   ELSE a1
         IN  [adj |-> a2, exc |-> "none"]

\* UnweightedAddEdge without the membership tests: it appends every time.
UnweightedAddEdgeAlwaysAppends(n, isDirected, a, u, v, weight) ==
    IF ~CheckVertex(n, u) THEN [adj |-> a, exc |-> "IndexError"]
    ELSE IF ~CheckVertex(n, v) THEN [adj |-> a, exc |-> "IndexError"]
    ELSE IF u = v THEN [adj |-> a, exc |-> "ValueError"]
    ELSE LET a1 == [a EXCEPT ![u] = Append(@, <<v, 1>>)]
             a2 == IF ~isDirected
                   THEN [a1 EXCEPT ![v] = Append(@, <<u, 1>>)]
                   ELSE a1
         IN  [adj |-> a2, exc |-> "none"]

\* An add_edge call ends with the adjacency it leaves behind and the
\* exception it raised ("none" when it returned).
\* UnweightedGraph.add_edge
UnweightedAddEdge(n, isDirected, a, u, v, weight) ==
    IF ~CheckVertex(n, u) THEN [adj |-> a, exc |-> "IndexError"]
    ELSE IF ~CheckVertex(n, v) THEN [adj |-> a, exc |-> "IndexError"]
    ELSE IF u = v THEN [adj |-> a, exc |-> "ValueError"]
    ELSE LET a1 == IF <<v, 1>> \notin Range(a[u])
                   THEN [a EXCEPT ![u] = Append(@, <<v, 1>>)]
                   ELSE a
             a2 == IF ~isDirected /\ <<u, 1>> \notin Range(a1[v])
                   THEN [a1 EXCEPT ![v] = Append(@, <<u, 1>>)]
                   ELSE a1
         IN  [adj |-> a2, exc |-> "none"]

\* _set_edge that always appends.
SetEdgeAppend(a, src, dst, w) ==
    [a EXCEPT ![src] = Append(a[src], <<dst, w>>)]

\* WeightedGraph.add_edge._set_edge: overwrite the first entry whose
\* neighbour is dst, else append.
SetEdge(a, src, dst, w) ==
    LET lst == a[src]
        hits == {i \in DOMAIN lst : lst[i][1] = dst}
    IN  IF hits # {}
        THEN [a EXCEPT ![src] = [lst EXCEPT ![Min(hits)] = <<dst, w>>]]
        ELSE [a EXCEPT ![src] = Append(lst, <<dst, w>>)]

\* WeightedGraph.add_edge with the self-loop test made after the forward
\* edge is stored.
WeightedAddEdgeLateSelfLoopCheck(n, isDirected, a, u, v, weight) ==
    IF ~CheckVertex(n, u) THEN [adj |-> a, exc |-> "IndexError"]
    ELSE IF ~CheckVertex(n, v) THEN [adj |-> a, exc |-> "IndexError"]
    ELSE LET a1 == SetEdge(a, u, v, weight)
             a2 == IF ~isDirected THEN SetEdge(a1, v, u, weight) ELSE a1
         IN  IF u = v THEN [adj |-> a1, exc |-> "ValueError"]
             ELSE [adj |-> a2, exc |-> "none"]

\* WeightedGraph.add_edge whose mirrored entry is added only when absent,
\* never updated.
WeightedAddEdgeMirrorNotUpdated(n, isDirected, a, u, v, weight) ==
    IF ~CheckVertex(n, u) THEN [adj |-> a, exc |-> "IndexError"]
    ELSE IF ~CheckVertex(n, v) THEN [adj |-> a, exc |-> "IndexError"]
    ELSE IF u = v THEN [adj |-> a, exc |-> "ValueError"]
    ELSE LET a1 == SetEdge(a, u, v, weight)
             a2 == IF ~isDirected /\ ~(\E i \in DOMAIN a1[v] : a1[v][i][1] = u)
                   THEN SetEdge(a1, v, u, weight)
                   ELSE a1
         IN  [adj |-> a2, exc |-> "none"]

\* WeightedGraph.add_edge
WeightedAddEdge(n, isDirected, a, u, v, weight) ==
    IF ~CheckVertex(n, u) THEN [adj |-> a, exc |-> "IndexError"]
    ELSE IF ~CheckVertex(n, v) THEN [adj |-> a, exc |-> "IndexError"]
    ELSE IF u = v THEN [adj |-> a, exc |-> "ValueError"]
    ELSE LET a1 == SetEdge(a, u, v, weight)
             a2 == IF ~isDirected THEN SetEdge(a1, v, u, weight) ELSE a1
         IN  [adj |-> a2, exc |-> "none"]

\* Graph.add_edge, dispatched on the variant
AddEdge(n, isDirected, isWeighted, a, u, v, weight) ==
    IF isWeighted THEN WeightedAddEdge(n, isDirected, a, u, v, weight)
    ELSE UnweightedAddEdge(n, isDirected, a, u, v, weight)

\* ---------------------------------------------------------- algorithmics
\* bfs, the body of "while q": u = q.popleft(); order.append(u); then for
\* v, i in adj[u]: if not visited[v]: visited[v] = True; q.append(v).
\* st holds the locals adj, visited, order and q.  The variant that follows
\* marks a vertex when it is dequeued instead.
BfsIterationMarksAtDequeue(st) ==
    LET u == Head(st.q)
        lst == st.adj[u]
        loop[i \in 0 .. Len(lst)] ==
            IF i = 0
            THEN [st EXCEPT !.q = Tail(@), !.order = Append(@, u),
                            !.visited = @ \cup {u}]
            ELSE LET s == loop[i - 1]
                     v == lst[i][1]
                 IN  IF v \in s.visited THEN s
                     ELSE [s EXCEPT !.q = Append(@, v)]
    IN  loop[Len(lst)]

BfsIteration(st) ==
    LET u == Head(st.q)
        lst == st.adj[u]
        loop[i \in 0 .. Len(lst)] ==
            IF i = 0
            THEN [st EXCEPT !.q = Tail(@), !.order = Append(@, u)]
            ELSE LET s == loop[i - 1]
                     v == lst[i][1]
                 IN  IF v \in s.visited THEN s
                     ELSE [s EXCEPT !.visited = @ \cup {v},
                                    !.q = Append(@, v)]
    IN  loop[Len(lst)]

\* dfs.dfs_visit(u), on st = [visited, order]: mark u and record it, then
\* for v, i in adj[u]: if not visited[v]: dfs_visit(v).  The variant that
\* follows records u after its descendants.
RECURSIVE DfsVisitRecordsOnExit(_, _, _)
DfsVisitRecordsOnExit(al, u, st) ==
    LET lst == al[u]
        loop[i \in 0 .. Len(lst)] ==
            IF i = 0
            THEN [st EXCEPT !.visited = @ \cup {u}]
            ELSE LET s == loop[i - 1]
                     v == lst[i][1]
                 IN  IF v \in s.visited THEN s
                     ELSE DfsVisitRecordsOnExit(al, v, s)
    IN  [loop[Len(lst)] EXCEPT !.order = Append(@, u)]

RECURSIVE DfsVisit(_, _, _)
DfsVisit(al, u, st) ==
    LET lst == al[u]
        loop[i \in 0 .. Len(lst)] ==
            IF i = 0
            THEN [st EXCEPT !.visited = @ \cup {u}, !.order = Append(@, u)]
            ELSE LET s == loop[i - 1]
                     v == lst[i][1]
                 IN  IF v \in s.visited THEN s
                     ELSE DfsVisit(al, v, s)
    IN  loop[Len(lst)]

\* GraphAlgorithms.dfs
Dfs(n, a, start) ==
    IF ~(0 <= start /\ start < n) THEN Raise("IndexError")
    ELSE Ok(DfsVisit(GetAdjacencyList(a), start,
                     [visited |-> {}, order |-> <<>>]).order)

\* sorted(comp)
SortVertices(comp) == StableSort(comp, [i \in DOMAIN comp |-> <<comp[i]>>])

\* components.sort(key=lambda c: c[0])
SortComponents(comps) ==
    StableSort(comps, [i \in DOMAIN comps |-> <<comps[i][1]>>])

\* connected_components, directed branch: undirected_adj[u].add(v) and
\* undirected_adj[v].add(u) for every edge, then each set as a sorted list
\* of (v, 1.0).
SetToSortedPairs(S) ==
    LET pick[k \in 0 .. Cardinality(S)] ==
            IF k = 0 THEN [left |-> S, out |-> <<>>]
            ELSE LET m == Min(pick[k - 1].left)
                 IN  [left |-> pick[k - 1].left \ {m},
                      out |-> Append(pick[k - 1].out, <<m, 1>>)]
    IN  pick[Cardinality(S)].out

SymmetrizedAdjacency(n, al) ==
    [u \in Vertices(n) |->
        SetToSortedPairs({al[u][i][1] : i \in DOMAIN al[u]}
                         \cup {x \in Vertices(n) :
                                  \E i \in DOMAIN al[x] : al[x][i][1] = u})]

\* connected_components.dfs_collect(u, comp), on st = [visited, comp]:
\* mark u, append it, then descend into each neighbour not yet visited when
\* its turn comes.
RECURSIVE DfsCollect(_, _, _)
RECURSIVE DfsNeighbours(_, _, _, _)
DfsCollect(al, u, st) ==
    DfsNeighbours(al, al[u], 1,
                  [visited |-> st.visited \cup {u}, comp |-> Append(st.comp, u)])

DfsNeighbours(al, lst, i, st) ==
    IF i > Len(lst) THEN st
    ELSE IF lst[i][1] \in st.visited THEN DfsNeighbours(al, lst, i + 1, st)
    ELSE DfsNeighbours(al, lst, i + 1, DfsCollect(al, lst[i][1], st))

\* The value of the local name u when the main loop of connected_components
\* reads it.  u is bound only by "for u in range(n)" of the directed branch
\* (the comprehension that follows has a scope of its own), which leaves it
\* at n - 1; on an undirected graph, and when n = 0, it is unbound.
Unbound == 0 - 1

LocalU(n, isDirected) == IF isDirected /\ n > 0 THEN n - 1 ELSE Unbound

\* connected_components, main loop: for v in range(n): if not visited[v]:
\* comp = []; visited[u] = True; comp.append(u); for v, i in adj[u]: ...;
\* components.append(sorted(comp)).  Reading the unbound u raises
\* UnboundLocalError.
RECURSIVE ComponentsLoop(_, _, _, _, _, _)
ComponentsLoop(al, n, u, v, visited, components) ==
    IF v >= n THEN Ok(SortComponents(components))
    ELSE IF v \in visited
         THEN ComponentsLoop(al, n, u, v + 1, visited, components)
    ELSE IF u = Unbound THEN Raise("UnboundLocalError")
    ELSE LET st == DfsNeighbours(al, al[u], 1,
                       [visited |-> visited \cup {u}, comp |-> <<u>>])
         IN  ComponentsLoop(al, n, u, v + 1, st.visited,
                            Append(components, SortVertices(st.comp)))

\* GraphAlgorithms.connected_components
ConnectedComponents(n, isDirected, a) ==
    LET al0 == GetAdjacencyList(a)
        al == IF isDirected THEN SymmetrizedAdjacency(n, al0) ELSE al0
    IN  ComponentsLoop(al, n, LocalU(n, isDirected), 0, {}, <<>>)

\* components_with_stats: v2c[v] = i for i, comp in enumerate(comps) for v
\* in comp; a later component overwrites an earlier one (indices from 1 here).
VertexToComponent(comps) ==
    LET keys == UNION {Range(comps[i]) : i \in DOMAIN comps}
    IN  [v \in keys |->
            CHOOSE i \in DOMAIN comps :
                /\ v \in Range(comps[i])
                /\ \A j \in DOMAIN comps : v \in Range(comps[j]) => j <= i]

\* components_with_stats, both edge-counting loops: for u in range(n), for
\* (v, _) in adj[u]; st = [exc, edges, counted].  v2c[u] and v2c[v] raise
\* KeyError for a vertex no component holds.
CountEdge(v2c, isDirected, u, v, st) ==
    IF st.exc # "none" THEN st
    ELSE IF u \notin DOMAIN v2c \/ v \notin DOMAIN v2c
         THEN [st EXCEPT !.exc = "KeyError"]
    ELSE IF v2c[u] # v2c[v] THEN st
    ELSE IF isDirected
         THEN [st EXCEPT !.edges[v2c[u]] = @ + 1]
    ELSE LET e == IF u <= v THEN <<u, v>> ELSE <<v, u>>
         IN  IF e \in st.counted THEN st
             ELSE [st EXCEPT !.counted = @ \cup {e},
                             !.edges[v2c[u]] = @ + 1]

CountEdges(n, isDirected, al, v2c, ncomps) ==
    LET row(st, u) ==
            LET inner[k \in 0 .. Len(al[u])] ==
                    IF k = 0 THEN st
                    ELSE CountEdge(v2c, isDirected, u, al[u][k][1], inner[k - 1])
            IN  inner[Len(al[u])]
        acc[k \in 0 .. n] ==
            IF k = 0
            THEN [exc |-> "none", edges |-> [i \in 1 .. ncomps |-> 0],
                  counted |-> {}]
            ELSE row(acc[k - 1], k - 1)
    IN  acc[n]

\* lambda s: (-s["node_count"], -s["edge_count"], s["smallest_vertex"])
StatsKey(s) == <<0 - s.node_count, 0 - s.edge_count, s.smallest_vertex>>

\* GraphAlgorithms.components_with_stats
ComponentsWithStats(n, isDirected, a) ==
    LET cc == ConnectedComponents(n, isDirected, a)
    IN  IF cc.exc # "none" THEN cc
        ELSE LET comps == cc.value
                 cnt == CountEdges(n, isDirected, GetAdjacencyList(a),
                                   VertexToComponent(comps), Len(comps))
                 stats == [i \in DOMAIN comps |->
                              [vertices |-> comps[i],
                               node_count |-> Len(comps[i]),
                               edge_count |-> cnt.edges[i],
                               smallest_vertex |-> comps[i][1]]]
             IN  IF cnt.exc # "none" THEN Raise(cnt.exc)
                 ELSE Ok(StableSort(stats,
                              [i \in DOMAIN stats |-> StatsKey(stats[i])]))

\* -------------------------------------------------------- graph_factory
Graph(n, isDirected, isWeighted, a) ==
    [vertices |-> n, directed |-> isDirected, weighted |-> isWeighted,
     adj |-> a]

\* GraphFactory.create_unweighted / create_weighted
CreateGraph(n, isDirected, isWeighted) ==
    Graph(n, isDirected, isWeighted, EmptyAdjacency(n))

\* g.add_edge(u, v, w) inside a factory loop: the graph afterwards
GraphAddEdge(g, u, v, w) ==
    [g EXCEPT !.adj = AddEdge(g.vertices, g.directed, g.weighted, g.adj,
                              u, v, w).adj]

\* from_adjacency_matrix inserting only the entries above the diagonal,
\* on directed graphs too.
FromAdjacencyMatrixUpperOnly(matrix, isDirected) ==
    LET n == Cardinality(DOMAIN matrix)
        V == Vertices(n)
        square == \A i \in V : Cardinality(DOMAIN matrix[i]) = n
        diagonalZero == \A i \in V : matrix[i][i] = 0
        symmetric == \A i, j \in V : matrix[i][j] = matrix[j][i]
        nonzeros == {matrix[i][j] : i, j \in V} \ {0}
        isWeighted == \E val \in nonzeros : val # 1
        \* the insertion loops, row by row, column by column
        cell(g, i, j) ==
            IF j >= i + 1 /\ matrix[i][j] # 0
            THEN GraphAddEdge(g, i, j, matrix[i][j]) ELSE g
        fill[k \in 0 .. n * n] ==
            IF k = 0 THEN CreateGraph(n, isDirected, isWeighted)
            ELSE cell(fill[k - 1], (k - 1) \div n, (k - 1) % n)
    IN  IF n = 0 THEN Raise("ValueError")
        ELSE IF ~square THEN Raise("ValueError")
        ELSE IF ~diagonalZero THEN Raise("ValueError")
        ELSE IF ~isDirected /\ ~symmetric THEN Raise("ValueError")
        ELSE Ok(fill[n * n])

\* GraphFactory.from_adjacency_matrix.  A matrix is a function from row
\* index 0..len-1 to rows, a row a function from 0..len(row)-1 to numbers.
FromAdjacencyMatrix(matrix, isDirected) ==
    LET n == Cardinality(DOMAIN matrix)
        V == Vertices(n)
        square == \A i \in V : Cardinality(DOMAIN matrix[i]) = n
        diagonalZero == \A i \in V : matrix[i][i] = 0
        symmetric == \A i, j \in V : matrix[i][j] = matrix[j][i]
        nonzeros == {matrix[i][j] : i, j \in V} \ {0}
        isWeighted == \E val \in nonzeros : val # 1
        \* the insertion loops, row by row, column by column
        cell(g, i, j) ==
            IF isDirected
            THEN IF i # j /\ matrix[i][j] # 0
                 THEN GraphAddEdge(g, i, j, matrix[i][j]) ELSE g
            ELSE IF j >= i + 1 /\ matrix[i][j] # 0
                 THEN GraphAddEdge(g, i, j, matrix[i][j]) ELSE g
        fill[k \in 0 .. n * n] ==
            IF k = 0 THEN CreateGraph(n, isDirected, isWeighted)
            ELSE cell(fill[k - 1], (k - 1) \div n, (k - 1) % n)
    IN  IF n = 0 THEN Raise("ValueError")
        ELSE IF ~square THEN Raise("ValueError")
        ELSE IF ~diagonalZero THEN Raise("ValueError")
        ELSE IF ~isDirected /\ ~symmetric THEN Raise("ValueError")
        ELSE Ok(fill[n * n])

\* GraphFactory.from_edges; edges is a sequence of triples <<u, v, w>>.
FromEdges(n, edges, isDirected) ==
    LET isWeighted == \E i \in DOMAIN edges : edges[i][3] # 1
        step[k \in 0 .. Len(edges)] ==
            IF k = 0 THEN Ok(CreateGraph(n, isDirected, isWeighted))
            ELSE LET r == step[k - 1]
                     u == edges[k][1]
                     v == edges[k][2]
                 IN  IF r.exc # "none" THEN r
                     ELSE IF ~(0 <= u /\ u < n) \/ ~(0 <= v /\ v < n)
                          THEN Raise("IndexError")
                     ELSE IF u = v THEN Raise("ValueError")
                     ELSE Ok(GraphAddEdge(r.value, u, v, edges[k][3]))
    IN  IF n < 0 THEN Raise("ValueError") ELSE step[Len(edges)]

\* ----------------------------------------------------- the state machine
\* vertices, directed, weighted, adj: the fields of the Graph object.
\* calls:  add_edge calls made so far.
\* last:   the last operation called, its arguments and the exception raised.
\* prev:   _adjacency_list as it was when the last operation was called.
\* result: what the last query returned.
\* g2:     the graph a from_adjacency_matrix call returned.
\* run:    the locals of the bfs call in progress (adj, visited, order, q)
\*         and where it stands: "idle", "loop" or "done".
Call(op, args, exc) == [op |-> op, args |-> args, exc |-> exc]

\* no traversal in progress
Idle == [pc |-> "idle", adj |-> <<>>, visited |-> {}, order |-> <<>>, q |-> <<>>]

\* the vertex arguments a caller may pass: every vertex, and one id too
\* small and one too large
VertexArgs(n) == (0 - 1) .. n

TypeOK ==
    /\ vertices \in Nat
    /\ directed \in BOOLEAN
    /\ weighted \in BOOLEAN
    /\ DOMAIN adj = Vertices(vertices)
    /\ calls \in Nat

\* A graph fresh from GraphFactory.create_unweighted / create_weighted
Init ==
    /\ vertices \in 0 .. MaxVertices
    /\ directed \in BOOLEAN
    /\ weighted \in BOOLEAN
    /\ adj = EmptyAdjacency(vertices)
    /\ calls = 0
    /\ last = Call("create", <<>>, "none")
    /\ prev = adj
    /\ result = None
    /\ g2 = None
    /\ run = Idle

AddEdgeCall(u, v, w) ==
    /\ LET r == AddEdge(vertices, directed, weighted, adj, u, v, w)
       IN  /\ adj' = r.adj
           /\ last' = Call("add_edge", <<u, v, w>>, r.exc)
    /\ prev' = adj
    /\ calls' = calls + 1
    /\ result' = None
    /\ UNCHANGED <<vertices, directed, weighted, g2, run>>

Query(op, outcome) ==
    /\ last' = Call(op, <<>>, outcome.exc)
    /\ result' = outcome
    /\ prev' = adj
    /\ UNCHANGED <<vertices, directed, weighted, adj, calls, g2, run>>

GetAdjacencyListCall ==
    Query("get_adjacency_list", Ok(GetAdjacencyList(adj)))

GetAdjacencyMatrixCall ==
    Query("get_adjacency_matrix", Ok(GetAdjacencyMatrix(vertices, adj, weighted)))

GetIncidenceMatrixCall ==
    Query("get_incidence_matrix", Ok(GetIncidenceMatrix(vertices, adj, directed)))

ConnectedComponentsCall ==
    Query("connected_components", ConnectedComponents(vertices, directed, adj))

ComponentsWithStatsCall ==
    Query("components_with_stats", ComponentsWithStats(vertices, directed, adj))

Next ==
    \/ /\ calls < MaxCalls
       /\ \E u, v \in VertexArgs(vertices), w \in Weights : AddEdgeCall(u, v, w)
    \/ GetAdjacencyListCall
    \/ GetAdjacencyMatrixCall
    \/ GetIncidenceMatrixCall
    \/ ConnectedComponentsCall
    \/ ComponentsWithStatsCall

Spec == Init /\ [][Next]_vars

\* ---- the factory round trip: from_edges, then from_adjacency_matrix of
\* ---- the built graph's get_adjacency_matrix()
\* the triples of an edge list: endpoints among the vertices and the first
\* id out of range, any weight
EdgeArgs(n) == (0 .. n) \X (0 .. n) \X Weights

\* Nothing built yet
InitFactory ==
    /\ vertices = 0
    /\ directed = FALSE
    /\ weighted = FALSE
    /\ adj = EmptyAdjacency(0)
    /\ calls = 0
    /\ last = Call("start", <<>>, "none")
    /\ prev = adj
    /\ result = None
    /\ g2 = None
    /\ run = Idle

FromEdgesCall(n, edges, isDirected) ==
    /\ last.op = "start"
    /\ LET r == FromEdges(n, edges, isDirected)
       IN  /\ last' = Call("from_edges", <<n, edges, isDirected>>, r.exc)
           /\ IF r.exc = "none"
              THEN /\ vertices' = r.value.vertices
                   /\ directed' = r.value.directed
                   /\ weighted' = r.value.weighted
                   /\ adj' = r.value.adj
              ELSE UNCHANGED <<vertices, directed, weighted, adj>>
    /\ UNCHANGED <<calls, prev, result, g2, run>>

FromAdjacencyMatrixCall ==
    /\ last.op = "from_edges"
    /\ last.exc = "none"
    /\ LET matrix == GetAdjacencyMatrix(vertices, adj, weighted)
           r == FromAdjacencyMatrix(matrix, directed)
       IN  /\ last' = Call("from_adjacency_matrix", <<matrix, directed>>, r.exc)
           /\ result' = Ok(matrix)
           /\ g2' = r
    /\ UNCHANGED <<vertices, directed, weighted, adj, calls, prev, run>>

NextFactory ==
    \/ /\ last.op = "start"
       /\ \E n \in (0 - 1) .. MaxVertices, isDirected \in BOOLEAN :
             \E k \in 0 .. MaxEdges :
                \E edges \in [1 .. k -> EdgeArgs(n)] :
                   FromEdgesCall(n, edges, isDirected)
    \/ FromAdjacencyMatrixCall

SpecFactory == InitFactory /\ [][NextFactory]_vars

\* ---- the traversals: a graph built by add_edge calls, then one bfs call,
\* ---- which advances one iteration of its loop at a time, or one dfs call
\* no traversal has been called yet
Building == last.op \in {"create", "add_edge"}

BfsCall(start) ==
    /\ Building
    /\ IF ~(0 <= start /\ start < vertices)
       THEN /\ last' = Call("bfs", <<start>>, "IndexError")
            /\ result' = Raise("IndexError")
            /\ run' = run
       ELSE /\ last' = Call("bfs", <<start>>, "none")
            /\ result' = None
            /\ run' = [pc |-> "loop", adj |-> GetAdjacencyList(adj),
                       visited |-> {start}, order |-> <<>>, q |-> <<start>>]
    /\ prev' = adj
    /\ UNCHANGED <<vertices, directed, weighted, adj, calls, g2>>

BfsStep ==
    /\ run.pc = "loop"
    /\ run.q # <<>>
    /\ run' = BfsIteration(run)
    /\ UNCHANGED <<vertices, directed, weighted, adj, calls, last, prev,
                   result, g2>>

BfsReturn ==
    /\ run.pc = "loop"
    /\ run.q = <<>>
    /\ run' = [run EXCEPT !.pc = "done"]
    /\ result' = Ok(run.order)
    /\ UNCHANGED <<vertices, directed, weighted, adj, calls, last, prev, g2>>

DfsCall(start) ==
    /\ Building
    /\ LET r == Dfs(vertices, adj, start)
       IN  /\ last' = Call("dfs", <<start>>, r.exc)
           /\ result' = r
    /\ prev' = adj
    /\ UNCHANGED <<vertices, directed, weighted, adj, calls, g2, run>>

\* one add_edge call between two distinct vertices of the graph
BuildCall ==
    /\ Building
    /\ calls < MaxBuild
    /\ \E u, v \in Vertices(vertices) : u # v /\ AddEdgeCall(u, v, 1)

NextBfs ==
    \/ BuildCall
    \/ \E start \in VertexArgs(vertices) : BfsCall(start)
    \/ BfsStep
    \/ BfsReturn

\* a call that has started runs on: the loop of bfs is not suspended
SpecBfs == Init /\ [][NextBfs]_vars /\ WF_vars(BfsStep) /\ WF_vars(BfsReturn)

\* A graph fresh from GraphFactory.create_unweighted / create_weighted, of
\* up to MaxDfsVertices vertices
InitDfs ==
    /\ vertices \in 0 .. MaxDfsVertices
    /\ directed \in BOOLEAN
    /\ weighted \in BOOLEAN
    /\ adj = EmptyAdjacency(vertices)
    /\ calls = 0
    /\ last = Call("create", <<>>, "none")
    /\ prev = adj
    /\ result = None
    /\ g2 = None
    /\ run = Idle

NextDfs ==
    \/ BuildCall
    \/ \E start \in VertexArgs(vertices) : DfsCall(start)

SpecDfs == InitDfs /\ [][NextDfs]_vars

\* ============================================================== claims
\* What the claims speak of, stated from the graph alone.
Called(op) == last.op = op

Returned(op) == last.op = op /\ last.exc = "none"

HasEdge(a, u, v) == \E i \in DOMAIN a[u] : a[u][i][1] = v

\* two vertices joined by an edge in either direction
Linked(a, x, y) == HasEdge(a, x, y) \/ HasEdge(a, y, x)

RECURSIVE Closure(_, _, _)
Closure(n, a, S) ==
    LET T == S \cup {y \in Vertices(n) : \E x \in S : Linked(a, x, y)}
    IN  IF T = S THEN S ELSE Closure(n, a, T)

\* the vertices a path joins to x when edge direction is ignored
ComponentOf(n, a, x) == Closure(n, a, {x})

IsAscending(s) == \A i, j \in DOMAIN s : i < j => s[i] < s[j]

\* comps is the list of connected components of the graph: every vertex in
\* exactly one component, two vertices together iff a path joins them, each
\* component ascending, components by ascending smallest vertex.
IsComponentList(n, a, comps) ==
    /\ \A x \in Vertices(n) :
          Cardinality({i \in DOMAIN comps : x \in Range(comps[i])}) = 1
    /\ \A i \in DOMAIN comps :
          /\ comps[i] # <<>>
          /\ Range(comps[i]) \subseteq Vertices(n)
          /\ IsAscending(comps[i])
          /\ \A x \in Range(comps[i]) : Range(comps[i]) = ComponentOf(n, a, x)
    /\ \A i, j \in DOMAIN comps : i < j => comps[i][1] < comps[j][1]

\* C1: on an undirected graph connected_components returns normally, and
\* returns the connected components: a partition of the vertices by
\* path-connectedness, each component ascending, ordered by smallest vertex.
C1_UndirectedComponents ==
    (Called("connected_components") /\ ~directed)
        => /\ result.exc = "none"
           /\ IsComponentList(vertices, adj, result.value)

\* C2: on a directed graph connected_components returns the weakly connected
\* components: a partition of the vertices by connectedness when direction
\* is ignored, each component ascending, ordered by smallest vertex; also
\* with isolated vertices and with no edges.
C2_WeakComponents ==
    (Called("connected_components") /\ directed)
        => /\ result.exc = "none"
           /\ IsComponentList(vertices, adj, result.value)

\* the edges inside a component C: directed edges with both ends in C, or
\* undirected edges of C counted once
InternalEdges(a, isDirected, C) ==
    IF isDirected
    THEN {e \in C \X C : HasEdge(a, e[1], e[2])}
    ELSE {e \in C \X C : e[1] < e[2] /\ Linked(a, e[1], e[2])}

AllEdges(n, a, isDirected) == InternalEdges(a, isDirected, Vertices(n))

RECURSIVE SumOver(_, _)
SumOver(f, D) ==
    IF D = {} THEN 0
    ELSE LET d == CHOOSE d \in D : TRUE IN f[d] + SumOver(f, D \ {d})

\* (-node_count, -edge_count, smallest_vertex) of s is at most that of t
StatsKeyAtMost(s, t) ==
    \/ s.node_count > t.node_count
    \/ /\ s.node_count = t.node_count
       /\ s.edge_count > t.edge_count
    \/ /\ s.node_count = t.node_count
       /\ s.edge_count = t.edge_count
       /\ s.smallest_vertex <= t.smallest_vertex

\* C3: components_with_stats returns one record per (weakly) connected
\* component with its node count, smallest vertex and internal edge count,
\* ordered by (-node_count, -edge_count, smallest_vertex); the node counts
\* sum to vertices and the edge counts to the number of edges.
C3_ComponentStats ==
    Called("components_with_stats")
        => /\ result.exc = "none"
           /\ LET st == result.value
              IN  /\ \A x \in Vertices(vertices) :
                        Cardinality({i \in DOMAIN st :
                            Range(st[i].vertices) = ComponentOf(vertices, adj, x)}) = 1
                  /\ \A i \in DOMAIN st :
                        /\ st[i].vertices # <<>>
                        /\ IsAscending(st[i].vertices)
                        /\ Range(st[i].vertices) =
                               ComponentOf(vertices, adj, st[i].vertices[1])
                        /\ st[i].node_count = Cardinality(Range(st[i].vertices))
                        /\ st[i].smallest_vertex = Min(Range(st[i].vertices))
                        /\ st[i].edge_count =
                               Cardinality(InternalEdges(adj, directed,
                                                         Range(st[i].vertices)))
                  /\ \A i, j \in DOMAIN st : i < j => StatsKeyAtMost(st[i], st[j])
                  /\ SumOver([i \in DOMAIN st |-> st[i].node_count], DOMAIN st)
                        = vertices
                  /\ SumOver([i \in DOMAIN st |-> st[i].edge_count], DOMAIN st)
                        = Cardinality(AllEdges(vertices, adj, directed))

\* the weight stored for u -> v (the edge exists)
WeightOf(a, u, v) == a[u][CHOOSE i \in DOMAIN a[u] : a[u][i][1] = v][2]

\* no vertex has one direction of an edge without the other
Mirrored(a) ==
    \A u, v \in DOMAIN a : HasEdge(a, u, v) <=> HasEdge(a, v, u)

\* C4: add_edge is all-or-nothing.  A call with u or v outside
\* [0, vertices) raises IndexError, a call with u = v raises ValueError, and
\* either leaves the adjacency of every vertex as it was; a call that
\* succeeds on an undirected graph leaves v in u's list and u in v's list;
\* an undirected graph never holds one direction of an edge alone.
C4_AddEdgeAllOrNothing ==
    /\ Called("add_edge") =>
          LET u == last.args[1]
              v == last.args[2]
              inRange == CheckVertex(vertices, u) /\ CheckVertex(vertices, v)
          IN  /\ ~inRange => last.exc = "IndexError"
              /\ (inRange /\ u = v) => last.exc = "ValueError"
              /\ (inRange /\ u # v) => last.exc = "none"
              /\ last.exc # "none" => adj = prev
              /\ (last.exc = "none" /\ ~directed)
                    => HasEdge(adj, u, v) /\ HasEdge(adj, v, u)
    /\ ~directed => Mirrored(adj)

\* C4 witness: an add_edge call failed on an undirected graph that already
\* held an edge.
C4_Witness ==
    /\ Called("add_edge")
    /\ last.exc # "none"
    /\ ~directed
    /\ \E x \in DOMAIN prev : prev[x] # <<>>

\* C5 as claimed: add_edge(2, 2, 1.0) raises ValueError on every graph,
\* whatever its vertex count.
C5_SelfLoopAlwaysValueError ==
    (Called("add_edge") /\ last.args = <<2, 2, 1>>) => last.exc = "ValueError"

\* C5 as amended: add_edge(2, 2, 1.0) raises ValueError on every graph of
\* either variant with more than 2 vertices, and IndexError on every graph
\* with at most 2 vertices, where vertex 2 is out of range.
C5_SelfLoopRejected ==
    (Called("add_edge") /\ last.args = <<2, 2, 1>>)
        => /\ last.exc = (IF vertices > 2 THEN "ValueError" ELSE "IndexError")
           /\ adj = prev

\* C5 witness: add_edge(2, 2, 1.0) was called on a graph that has vertex 2.
C5_Witness ==
    /\ Called("add_edge")
    /\ last.args = <<2, 2, 1>>
    /\ vertices > 2
    /\ last.exc = "ValueError"

IsSymmetric(m) == \A u, v \in DOMAIN m : m[u][v] = m[v][u]

\* C6: on an undirected graph of either variant, after any add_edge calls,
\* (u, w) is in v's list iff (v, w) is in u's list, and the adjacency matrix
\* get_adjacency_matrix returns is symmetric.
C6_UndirectedSymmetry ==
    ~directed =>
        /\ \A u, v \in DOMAIN adj : \A w \in Weights :
              <<u, w>> \in Range(adj[v]) <=> <<v, w>> \in Range(adj[u])
        /\ IsSymmetric(GetAdjacencyMatrix(vertices, adj, weighted))

\* C6 witness: on an undirected weighted graph an edge was re-inserted with
\* its endpoints swapped and another weight.
C6_Witness ==
    /\ ~directed
    /\ weighted
    /\ Returned("add_edge")
    /\ HasEdge(prev, last.args[2], last.args[1])
    /\ prev[last.args[2]][1] = <<last.args[1], 1>>
    /\ last.args[3] = 2

\* the round trip ended well: from_adjacency_matrix returned a graph whose
\* adjacency list is that of the graph from_edges built
RoundTripEqual ==
    /\ g2.exc = "none"
    /\ g2.value.vertices = vertices
    /\ GetAdjacencyList(g2.value.adj) = GetAdjacencyList(adj)

\* C7 as claimed: for every vertex count and every edge list from_edges
\* accepts, from_adjacency_matrix of the built graph's adjacency matrix
\* succeeds and yields the same adjacency list.
C7_RoundTripAlways ==
    Called("from_adjacency_matrix") => RoundTripEqual

NoZeroWeight(a) ==
    \A u \in DOMAIN a : \A i \in DOMAIN a[u] : a[u][i][2] # 0

\* C7 as amended: for every vertex count of at least 1 and every edge list
\* from_edges accepts that leaves no edge stored with weight 0.0, the round
\* trip succeeds and yields the same adjacency list; with 0 vertices
\* from_adjacency_matrix raises ValueError on the empty matrix.
C7_RoundTrip ==
    Called("from_adjacency_matrix") =>
        /\ (vertices >= 1 /\ NoZeroWeight(adj)) => RoundTripEqual
        /\ vertices = 0 => g2.exc = "ValueError"

\* C7 witness: the round trip of a graph built from two edges, one of them
\* not of weight 1.0, given against the vertex order.
C7_Witness ==
    /\ Returned("from_adjacency_matrix")
    /\ NoZeroWeight(adj)
    /\ \E u, v \in DOMAIN adj : u > v /\ HasEdge(adj, u, v) /\ WeightOf(adj, u, v) = 2
    /\ Cardinality({e \in (DOMAIN adj) \X (DOMAIN adj) : HasEdge(adj, e[1], e[2])}) >= 2
    /\ RoundTripEqual

\* the matrix has the shape vertices x vertices
IsSquare(n, m) ==
    /\ DOMAIN m = Vertices(n)
    /\ \A u \in Vertices(n) : DOMAIN m[u] = Vertices(n)

\* entry [u][v] is the stored weight (1.0 if unweighted) when u -> v is in
\* the adjacency list, else 0.0
MatrixShowsEdges(n, a, isWeighted, m) ==
    \A u, v \in Vertices(n) :
        m[u][v] = IF HasEdge(a, u, v)
                  THEN (IF isWeighted THEN WeightOf(a, u, v) ELSE 1)
                  ELSE 0

\* C8 as claimed: get_adjacency_matrix is vertices x vertices, entry [u][v]
\* is the stored weight (1.0 if unweighted) when u -> v exists and 0.0 when
\* not, an entry is non-zero exactly when the edge exists, and the diagonal
\* is 0.0.
C8_MatrixNonZeroIffEdge ==
    Returned("get_adjacency_matrix") =>
        /\ IsSquare(vertices, result.value)
        /\ MatrixShowsEdges(vertices, adj, weighted, result.value)
        /\ \A u, v \in Vertices(vertices) :
              result.value[u][v] # 0 <=> HasEdge(adj, u, v)
        /\ \A u \in Vertices(vertices) : result.value[u][u] = 0

\* C8 as amended: get_adjacency_matrix is vertices x vertices, entry [u][v]
\* is the stored weight (1.0 if unweighted) when u -> v exists and 0.0 when
\* not, so an entry is non-zero exactly when the edge exists with a non-zero
\* stored weight (a weighted graph stores weight 0.0 as given); the diagonal
\* is 0.0.
C8_AdjacencyMatrix ==
    Returned("get_adjacency_matrix") =>
        /\ IsSquare(vertices, result.value)
        /\ MatrixShowsEdges(vertices, adj, weighted, result.value)
        /\ \A u, v \in Vertices(vertices) :
              result.value[u][v] # 0 <=>
                  (HasEdge(adj, u, v) /\ (weighted => WeightOf(adj, u, v) # 0))
        /\ \A u \in Vertices(vertices) : result.value[u][u] = 0

\* C8 witness: the matrix of a weighted graph holding an edge of weight 2.0
\* and an edge of weight 0.0.
C8_Witness ==
    /\ Returned("get_adjacency_matrix")
    /\ weighted
    /\ \E u, v \in DOMAIN adj : HasEdge(adj, u, v) /\ WeightOf(adj, u, v) = 2
    /\ \E u, v \in DOMAIN adj : HasEdge(adj, u, v) /\ WeightOf(adj, u, v) = 0

\* the edges an incidence matrix has a column for
ColumnEdges(n, a, isDirected) ==
    IF isDirected
    THEN {e \in Vertices(n) \X Vertices(n) : HasEdge(a, e[1], e[2])}
    ELSE {e \in Vertices(n) \X Vertices(n) :
             e[1] < e[2] /\ Linked(a, e[1], e[2])}

LexBefore(e, f) == e[1] < f[1] \/ (e[1] = f[1] /\ e[2] < f[2])

\* the edge of column k (from 1) in lexicographic order
ColumnEdge(E, k) ==
    CHOOSE e \in E : Cardinality({f \in E : LexBefore(f, e)}) = k - 1

\* C9: get_incidence_matrix has vertices rows and one column per edge
\* (directed edge, or unordered pair of an undirected graph, once); the
\* column of edge (u, v) holds -1 at u and +1 at v on a directed graph, +1
\* at both on an undirected graph, and 0 elsewhere; columns are in
\* lexicographic order of (u, v), resp. (min, max), whatever the order of
\* insertion.
C9_IncidenceMatrix ==
    Returned("get_incidence_matrix") =>
        LET m == result.value
            E == ColumnEdges(vertices, adj, directed)
            cols == 1 .. Cardinality(E)
        IN  /\ DOMAIN m = Vertices(vertices)
            /\ \A r \in Vertices(vertices) : DOMAIN m[r] = cols
            /\ \A k \in cols :
                  LET e == ColumnEdge(E, k)
                  IN  /\ m[e[1]][k] = (IF directed THEN 0 - 1 ELSE 1)
                      /\ m[e[2]][k] = 1
                      /\ \A r \in Vertices(vertices) \ {e[1], e[2]} : m[r][k] = 0
                      /\ Cardinality({r \in Vertices(vertices) : m[r][k] # 0}) = 2
                      /\ SumOver([r \in Vertices(vertices) |-> m[r][k]],
                                 Vertices(vertices))
                            = (IF directed THEN 0 ELSE 2)

\* C9 witness: the incidence matrix of a graph with two edges from one
\* vertex, the edge to the larger neighbour inserted first.
C9_Witness ==
    /\ Returned("get_incidence_matrix")
    /\ \E u \in DOMAIN adj :
          /\ Len(adj[u]) = 2
          /\ adj[u][1][1] > adj[u][2][1]
          /\ u < adj[u][2][1]

C11_UnweightedFixedWeight ==
    ~weighted =>
        /\ \A x \in DOMAIN adj : \A i \in DOMAIN adj[x] : adj[x][i][2] = 1
        /\ (Returned("add_edge")
              /\ (\/ HasEdge(prev, last.args[1], last.args[2])
                  \/ (~directed /\ HasEdge(prev, last.args[2], last.args[1]))))
              => adj = prev

\* C11 witness: on an undirected unweighted graph an edge inserted as
\* (v, u) was inserted again as (u, v) with weight 2.0.
C11_Witness ==
    /\ ~weighted
    /\ ~directed
    /\ Returned("add_edge")
    /\ last.args[3] = 2
    /\ prev[last.args[2]] # <<>>
    /\ prev[last.args[2]][1] = <<last.args[1], 1>>
    /\ last.args[1] > last.args[2]

\* C12: after any add_edge calls, failed ones included, on a graph of either
\* variant, directed or not, the adjacency has an entry for exactly the
\* vertices 0 .. vertices-1, no vertex lists itself, every listed neighbour
\* is a vertex, and no list names a neighbour twice.
C12_AdjacencyStructure ==
    /\ DOMAIN adj = Vertices(vertices)
    /\ \A x \in DOMAIN adj :
          /\ \A i \in DOMAIN adj[x] :
                /\ adj[x][i][1] # x
                /\ adj[x][i][1] \in Vertices(vertices)
          /\ \A i, j \in DOMAIN adj[x] :
                adj[x][i][1] = adj[x][j][1] => i = j

\* C12 witness: an edge a directed graph already held was inserted again.
C12_Witness ==
    /\ directed
    /\ Returned("add_edge")
    /\ HasEdge(prev, last.args[1], last.args[2])

\* The vertices at most k edges away from those of S along the stored edges,
\* the vertices reachable from s, and the distance of one of them from s.
RECURSIVE Within(_, _, _, _)
Within(n, a, S, k) ==
    IF k = 0 THEN S
    ELSE Within(n, a,
                S \cup {y \in Vertices(n) : \E x \in S : HasEdge(a, x, y)},
                k - 1)

Reachable(n, a, s) == Within(n, a, {s}, n)

Distance(n, a, s, x) == Min({k \in 0 .. n : x \in Within(n, a, {s}, k)})

NoRepeats(s) == \A i, j \in DOMAIN s : s[i] = s[j] => i = j

\* What holds of the locals of a bfs(graph, start) call with a valid start,
\* from its first iteration to its return.  seen is the order in which the
\* vertices were enqueued: those dequeued, then the queue.
BfsInvariant ==
    run.pc # "idle" =>
        LET start == last.args[1]
            seen == run.order \o run.q
            dequeued == DOMAIN run.order
            dist == [k \in DOMAIN seen |->
                        Distance(vertices, adj, start, seen[k])]
            enqueuers == [k \in DOMAIN seen |->
                            {p \in dequeued : HasEdge(adj, seen[p], seen[k])}]
            parent == [k \in 2 .. Len(seen) |-> Min(enqueuers[k])]
        IN  /\ NoRepeats(seen)
            /\ run.visited = Range(seen)
            /\ seen[1] = start
            /\ Range(seen) \subseteq Reachable(vertices, adj, start)
            /\ Len(seen) <= vertices
            /\ \A i, j \in DOMAIN seen :
                  i <= j => dist[i] <= dist[j]
            /\ \A p \in dequeued : \A y \in Vertices(vertices) :
                  HasEdge(adj, seen[p], y) => y \in run.visited
            /\ \A k \in 2 .. Len(seen) : enqueuers[k] # {}
            /\ \A i, j \in 2 .. Len(seen) :
                  i < j => \/ parent[i] < parent[j]
                           \/ parent[i] = parent[j] /\ seen[i] < seen[j]
            /\ run.pc = "done" =>
                  /\ run.q = <<>>
                  /\ result = Ok(run.order)
                  /\ Range(run.order) = Reachable(vertices, adj, start)

\* C13: during bfs(graph, start) with a valid start a vertex is marked when
\* it is enqueued, so the queue never holds a vertex twice nor one already
\* dequeued; the loop ends; and the list returned is the dequeue order: the
\* vertices reachable from start, each once, start first, in non-decreasing
\* distance from start, the unvisited neighbours of each dequeued vertex in
\* ascending id order whatever the order the edges were inserted in.
C13_Bfs ==
    /\ []BfsInvariant
    /\ (run.pc = "loop") ~> (run.pc = "done")

\* C13 witness: bfs returned from a start whose edges were inserted in
\* descending neighbour order, after dequeuing a vertex one of whose
\* neighbours was waiting in the queue.
C13_Witness ==
    /\ run.pc = "done"
    /\ Len(adj[last.args[1]]) >= 2
    /\ adj[last.args[1]][1][1] > adj[last.args[1]][2][1]
    /\ \E i, j \in DOMAIN run.order :
          /\ 1 < i
          /\ i < j
          /\ HasEdge(adj, run.order[1], run.order[j])
          /\ HasEdge(adj, run.order[i], run.order[j])

\* The sequence an explicit-stack depth-first traversal produces: pop a
\* vertex; if it has not been recorded, record it and push its neighbours
\* in reversed (descending) order.  al is the sorted adjacency list.
Reversed(s) == [i \in 1 .. Len(s) |-> s[Len(s) + 1 - i]]

RECURSIVE StackLoop(_, _, _, _)
StackLoop(al, stack, visited, order) ==
    IF stack = <<>> THEN order
    ELSE LET u == stack[Len(stack)]
             rest == SubSeq(stack, 1, Len(stack) - 1)
         IN  IF u \in visited THEN StackLoop(al, rest, visited, order)
             ELSE StackLoop(al,
                            rest \o Reversed([i \in DOMAIN al[u] |-> al[u][i][1]]),
                            visited \cup {u}, Append(order, u))

StackDfs(al, start) == StackLoop(al, <<start>>, {}, <<>>)

\* order is the preorder from start with neighbours explored in ascending
\* id order: it begins with start, and after its first k vertices comes the
\* smallest neighbour not among them of the latest of them that has one; it
\* ends when none has.
IsPreorder(n, a, start, order) ==
    /\ order # <<>>
    /\ order[1] = start
    /\ \A k \in DOMAIN order :
          LET fresh == [p \in 1 .. k |->
                           {y \in Vertices(n) :
                               /\ HasEdge(a, order[p], y)
                               /\ \A i \in 1 .. k : order[i] # y}]
              open == {p \in 1 .. k : fresh[p] # {}}
              latest == CHOOSE p \in open : \A r \in open : r <= p
          IN  IF open = {} THEN k = Len(order)
              ELSE k < Len(order) /\ order[k + 1] = Min(fresh[latest])

\* C14: for a valid start the list the recursive dfs returns is the preorder
\* in which a vertex is recorded on first entry and neighbours are explored
\* in ascending id order; it is the sequence of the explicit-stack traversal
\* that pushes neighbours in reversed order and records a vertex when first
\* popped; and it holds exactly the vertices reachable from start, each once.
C14_DfsPreorder ==
    Returned("dfs") =>
        LET start == last.args[1]
            order == result.value
        IN  /\ IsPreorder(vertices, adj, start, order)
            /\ order = StackDfs(GetAdjacencyList(adj), start)
            /\ NoRepeats(order)
            /\ Range(order) = Reachable(vertices, adj, start)

\* C14 witness: dfs returned after descending two edges and then going back
\* to start for a neighbour inserted before the one it took first, so that
\* the preorder is not the order of distance from start.
C14_Witness ==
    /\ Returned("dfs")
    /\ Len(result.value) = 4
    /\ HasEdge(adj, result.value[1], result.value[2])
    /\ HasEdge(adj, result.value[2], result.value[3])
    /\ ~HasEdge(adj, result.value[1], result.value[3])
    /\ ~HasEdge(adj, result.value[3], result.value[4])
    /\ ~HasEdge(adj, result.value[2], result.value[4])
    /\ adj[last.args[1]][1][1] = result.value[4]

====
